---- MODULE Spec2Model ----
(***************************************************************************)
(* Model of src/main.py: citation blob -> articles -> LLM title ->         *)
(* Crossref lookup -> tagged reference string -> references/<i>_<t>.enw.   *)
(*                                                                         *)
(* A Python str is modelled as a sequence of one-character strings, so     *)
(* that concatenation, stripping, splitting and substitution are computed  *)
(* character by character.  A CJK character of a literal is written as     *)
(* its code point ("U+53D1"): one element of the sequence per character.   *)
(* A dict is a function whose DOMAIN is the set of keys that are present.  *)
(***************************************************************************)
EXTENDS Integers, Sequences, FiniteSets, TLC

VARIABLES
    target,      \* target.target: the input text blob (line 10)
    articles,    \* the article list built at lines 156-157
    pc,          \* position of the script: "main", "process", "loop", "done", "aborted"
    i,           \* the loop index of enumerate(articles, start=1)
    dir_exists,  \* whether the directory references/ exists
    files,       \* the files under references/: path -> content
    printed,     \* the lines printed on the console, in order
    lookups,     \* the query titles sent to the Crossref API, in order
    log,         \* history: what happened to each article the loop has taken
    call         \* a single call of a pure function: its arguments and result

vars == <<target, articles, pc, i, dir_exists, files, printed, lookups, log, call>>

driverVars == <<target, articles, pc, i, dir_exists, files, printed, lookups, log>>

-----------------------------------------------------------------------------
(* Bounds of the model *)

MaxTitleLen == 3
MaxBlobLen == 6
MaxAuthors == 2
MaxArticles == 2

-----------------------------------------------------------------------------
(* Strings *)

EmptyDict == [k \in {} |-> k]

\* the set of all strings over alphabet A of length at most n
StringsUpTo(A, n) == UNION {[1..k -> A] : k \in 0..n}

\* str.join of a list of strings with the empty separator
RECURSIVE Concat(_)
Concat(ss) == IF ss = <<>> THEN <<>> ELSE Head(ss) \o Concat(Tail(ss))

\* '{}'.format(n) and f"{n}" of a non-negative int: its decimal digits
DigitChar(d) == <<"0", "1", "2", "3", "4", "5", "6", "7", "8", "9">>[d + 1]

RECURSIVE Digits(_)
Digits(n) == IF n < 10 THEN <<DigitChar(n)>>
             ELSE Digits(n \div 10) \o <<DigitChar(n % 10)>>

\* str.lstrip(chars), str.rstrip(chars), str.strip(chars)
RECURSIVE lstrip(_, _)
lstrip(s, chars) ==
    IF s /= <<>> /\ Head(s) \in chars THEN lstrip(Tail(s), chars) ELSE s

RECURSIVE rstrip(_, _)
rstrip(s, chars) ==
    IF s /= <<>> /\ s[Len(s)] \in chars
    THEN rstrip(SubSeq(s, 1, Len(s) - 1), chars)
    ELSE s

strip(s, chars) == rstrip(lstrip(s, chars), chars)

\* the characters str.strip() removes when called without argument (those of
\* them a TLA+ string can hold)
WHITESPACE == {" ", "\t", "\n", "\r", "\f"}

\* str.find(sep): the 1-based position of the leftmost occurrence, 0 if none
find(s, sep) ==
    LET hits == {p \in 1..(Len(s) - Len(sep) + 1) :
                    SubSeq(s, p, p + Len(sep) - 1) = sep}
    IN IF hits = {} THEN 0 ELSE CHOOSE p \in hits : \A q \in hits : p <= q

\* a plausible slip: split(sep, 1), which cuts at the first marker only
split_once(s, sep) ==
    LET p == find(s, sep)
    IN IF p = 0 THEN <<s>>
       ELSE <<SubSeq(s, 1, p - 1), SubSeq(s, p + Len(sep), Len(s))>>

\* str.split(sep): cut at the leftmost occurrence, then split the rest
RECURSIVE split(_, _)
split(s, sep) ==
    LET p == find(s, sep)
    IN IF p = 0 THEN <<s>>
       ELSE <<SubSeq(s, 1, p - 1)>> \o split(SubSeq(s, p + Len(sep), Len(s)), sep)

\* str.replace(old, new) for a one-character old
replace(s, old, new) == [k \in DOMAIN s |-> IF s[k] = old THEN new ELSE s[k]]

-----------------------------------------------------------------------------
(* sanitize_title, line 23: re.sub(r'[\\/*?:"<>|]', "", title) *)

\* the character class of the pattern
UNSAFE_CLASS == {"\\", "/", "*", "?", ":", "\"", "<", ">", "|"}

\* a plausible slip: str.replace(..., count=1) semantics, only the first match goes
RECURSIVE sanitize_first_only(_)
sanitize_first_only(title) ==
    IF title = <<>> THEN <<>>
    ELSE IF Head(title) \in UNSAFE_CLASS THEN Tail(title)
    ELSE <<Head(title)>> \o sanitize_first_only(Tail(title))

\* re.sub scans left to right and replaces every match by the empty string
RECURSIVE re_sub_class(_, _)
re_sub_class(class, s) ==
    IF s = <<>> THEN <<>>
    ELSE IF Head(s) \in class THEN re_sub_class(class, Tail(s))
    ELSE <<Head(s)>> \o re_sub_class(class, Tail(s))

sanitize_title(title) == re_sub_class(UNSAFE_CLASS, title)

-----------------------------------------------------------------------------
(* Exceptions and results.  str(e) of an exception is kept as one element. *)

Exc(type, msg) == [type |-> type, msg |-> msg]

KeyError(key) == Exc("KeyError", key)

IndexError == Exc("IndexError", "list index out of range")

JSONDecodeError == Exc("JSONDecodeError", "Expecting value")

Return(value) == [kind |-> "return", value |-> value]

Raise(exc) == [kind |-> "raise", exc |-> exc]

-----------------------------------------------------------------------------
(* get_reference, lines 26-103 *)

\* response.status_code of a successful request (line 46)
HTTP_OK == 200

\* line 101: "no item found"
NOT_FOUND_MSG == <<"U+672A", "U+627E", "U+5230", "U+9879", "U+76EE", "U+3002">>

\* line 103: "an error occurred"
ERROR_MSG == <<"U+53D1", "U+751F", "U+9519", "U+8BEF", "U+3002">>

\* line 39: the title as it is put in the query string
query_title(title) == replace(title, " ", "+")

\* lines 65-70: the text one author adds
author_line(author) ==
    IF "given" \in DOMAIN author /\ "family" \in DOMAIN author
    THEN <<"%", "A", " ">> \o author.family \o <<",", " ">> \o author.given \o <<" ", "\n">>
    ELSE IF "given" \in DOMAIN author
    THEN <<"%", "A", " ">> \o author.given \o <<"\n">>
    ELSE IF "family" \in DOMAIN author
    THEN <<"%", "A", " ">> \o author.family \o <<"\n">>
    ELSE <<>>

\* lines 64-70: the loop over item['author']
RECURSIVE author_lines(_)
author_lines(authors) ==
    IF authors = <<>> THEN <<>>
    ELSE author_line(Head(authors)) \o author_lines(Tail(authors))

\* item[key]['date-parts'][0][0], formatted
year_of(item, key) == Digits(item[key]["date-parts"][1][1])

\* a plausible slip: the two published dates tested in the other order
year_line_online_first(item) ==
    IF "published-online" \in DOMAIN item
    THEN Return(<<"%", "D", " ">> \o year_of(item, "published-online") \o <<"\n">>)
    ELSE IF "published-print" \in DOMAIN item
    THEN Return(<<"%", "D", " ">> \o year_of(item, "published-print") \o <<"\n">>)
    ELSE IF "created" \in DOMAIN item
    THEN Return(<<"%", "D", " ">> \o year_of(item, "created") \o <<"\n">>)
    ELSE Raise(KeyError("created"))

\* lines 89-94: the year
year_line(item) ==
    IF "published-print" \in DOMAIN item
    THEN Return(<<"%", "D", " ">> \o year_of(item, "published-print") \o <<"\n">>)
    ELSE IF "published-online" \in DOMAIN item
    THEN Return(<<"%", "D", " ">> \o year_of(item, "published-online") \o <<"\n">>)
    ELSE IF "created" \in DOMAIN item
    THEN Return(<<"%", "D", " ">> \o year_of(item, "created") \o <<"\n">>)
    ELSE Raise(KeyError("created"))

\* a plausible slip: the whole ISSN list joined instead of its first element
issn_line_all(item) ==
    IF "ISSN" \in DOMAIN item /\ Len(item.ISSN) > 0
    THEN <<"%", "@", " ">> \o Concat(item.ISSN) \o <<"\n">>
    ELSE <<>>

\* lines 85-86: the ISSN
issn_line(item) ==
    IF "ISSN" \in DOMAIN item /\ Len(item.ISSN) > 0
    THEN <<"%", "@", " ">> \o item.ISSN[1] \o <<"\n">>
    ELSE <<>>

\* f"<tag> {item[key]}\n" if key in item else ""  (lines 58, 76, 79, 82, 97)
optional_line(item, key, tag) ==
    IF key \in DOMAIN item THEN <<"%", tag, " ">> \o item[key] \o <<"\n">> ELSE <<>>

\* lines 55-99: ref_string of the first item; the first failing subscript raises
item_reference(item) ==
    IF "title" \notin DOMAIN item THEN Raise(KeyError("title"))
    ELSE IF item.title = <<>> THEN Raise(IndexError)
    ELSE IF "author" \notin DOMAIN item THEN Raise(KeyError("author"))
    ELSE IF "container-title" \notin DOMAIN item THEN Raise(KeyError("container-title"))
    ELSE IF item["container-title"] = <<>> THEN Raise(IndexError)
    ELSE IF year_line(item).kind = "raise" THEN year_line(item)
    ELSE Return(
           optional_line(item, "type", "0")
        \o <<"%", "T", " ">> \o item.title[1] \o <<"\n">>
        \o author_lines(item.author)
        \o <<"%", "J", " ">> \o item["container-title"][1] \o <<"\n">>
        \o optional_line(item, "volume", "V")
        \o optional_line(item, "issue", "N")
        \o optional_line(item, "page", "P")
        \o issn_line(item)
        \o year_line(item).value
        \o optional_line(item, "publisher", "I"))

\* a plausible slip: the item list is read before the status is tested
get_reference_body_first(title, resp) ==
    IF resp.kind = "exception" THEN Raise(resp.exc)
    ELSE IF ~resp.text.json THEN Raise(JSONDecodeError)
    ELSE IF "message" \notin DOMAIN resp.text.data THEN Raise(KeyError("message"))
    ELSE IF "items" \notin DOMAIN resp.text.data.message THEN Raise(KeyError("items"))
    ELSE IF resp.status_code = HTTP_OK /\ resp.text.data.message.items /= <<>>
    THEN item_reference(resp.text.data.message.items[1])
    ELSE IF resp.status_code = HTTP_OK THEN Return(NOT_FOUND_MSG)
    ELSE Return(ERROR_MSG)

\* a plausible slip: the last item taken instead of the first
get_reference_last_item(title, resp) ==
    IF resp.kind = "exception" THEN Raise(resp.exc)
    ELSE IF resp.status_code = HTTP_OK
    THEN IF ~resp.text.json THEN Raise(JSONDecodeError)
         ELSE IF "message" \notin DOMAIN resp.text.data THEN Raise(KeyError("message"))
         ELSE IF "items" \notin DOMAIN resp.text.data.message THEN Raise(KeyError("items"))
         ELSE IF resp.text.data.message.items /= <<>>
         THEN item_reference(resp.text.data.message.items[Len(resp.text.data.message.items)])
         ELSE Return(NOT_FOUND_MSG)
    ELSE Return(ERROR_MSG)

\* lines 42-103.  resp is what requests.get did for the query: it raised, or it
\* gave a response with a status_code and a text
get_reference(title, resp) ==
    IF resp.kind = "exception" THEN Raise(resp.exc)
    ELSE IF resp.status_code = HTTP_OK
    THEN IF ~resp.text.json THEN Raise(JSONDecodeError)
         ELSE IF "message" \notin DOMAIN resp.text.data THEN Raise(KeyError("message"))
         ELSE IF "items" \notin DOMAIN resp.text.data.message THEN Raise(KeyError("items"))
         ELSE IF resp.text.data.message.items /= <<>>
         THEN item_reference(resp.text.data.message.items[1])
         ELSE Return(NOT_FOUND_MSG)
    ELSE Return(ERROR_MSG)

-----------------------------------------------------------------------------
(* What the Crossref API may answer: the inputs of get_reference *)

\* a key that may be absent: no entry, or the key with one of the values
Opt(key, values) == {EmptyDict} \cup {key :> v : v \in values}

\* d without the key k
Without(d, k) == [x \in DOMAIN d \ {k} |-> d[x]]

DateParts(year) == "date-parts" :> <<<<year, 5>>>>

\* an author of the list: given and family are each present or absent
Authors == {g @@ f : g \in Opt("given", {<<"G">>}), f \in Opt("family", {<<"F">>})}

AuthorLists == UNION {[1..k -> Authors] : k \in 0..MaxAuthors}

\* items that have every key the code subscripts without a test
FullItems ==
    {ty @@ ti @@ au @@ ct @@ vo @@ iu @@ pg @@ sn @@ pp @@ po @@ cr @@ pb :
        ty \in Opt("type", {<<"j">>}),
        ti \in {"title" :> v : v \in {<<(<<"T">>)>>, <<(<<"T">>), (<<"S">>)>>}},
        au \in {"author" :> v : v \in AuthorLists},
        ct \in {"container-title" :> v : v \in {<<(<<"C">>)>>}},
        vo \in Opt("volume", {<<"7">>}),
        iu \in Opt("issue", {<<"3">>}),
        pg \in Opt("page", {<<"1", "-", "9">>}),
        sn \in Opt("ISSN", {<<>>, <<(<<"1", "X">>)>>, <<(<<"1", "X">>), (<<"2", "Y">>)>>}),
        pp \in Opt("published-print", {DateParts(2020)}),
        po \in Opt("published-online", {DateParts(2019)}),
        cr \in {"created" :> DateParts(2018)},
        pb \in Opt("publisher", {<<"P">>})}

\* the full items with at most one author and one title
SmallItems == {it \in FullItems : Len(it.author) <= 1 /\ Len(it.title) = 1}

\* items with a key missing, or with an empty title or container-title list
ShapedItems ==
    {Without(it, k) : it \in SmallItems,
                      k \in {"title", "author", "container-title", "created"}}
    \cup {("title" :> <<>>) @@ it : it \in SmallItems}
    \cup {("container-title" :> <<>>) @@ it : it \in SmallItems}

\* an item that shares no value with the others: a second search result
OtherItem ==
    ("type" :> <<"b">>) @@ ("title" :> <<(<<"Z">>)>>)
    @@ ("author" :> <<("given" :> <<"H">>)>>) @@ ("container-title" :> <<(<<"K">>)>>)
    @@ ("ISSN" :> <<(<<"9", "Z">>)>>) @@ ("published-print" :> DateParts(1999))
    @@ ("created" :> DateParts(1998)) @@ ("publisher" :> <<"Q">>)

\* the full items without volume, issue and page: the first of two results
PairedItems ==
    {it \in FullItems : Len(it.title) = 1 /\ DOMAIN it \cap {"volume", "issue", "page"} = {}}

ItemLists ==
    {<<>>} \cup {<<it>> : it \in FullItems \cup ShapedItems}
           \cup {<<it, OtherItem>> : it \in PairedItems}
           \cup {<<OtherItem, it>> : it \in SmallItems}

JsonBody(data) == [json |-> TRUE, data |-> data]

NotJson == [json |-> FALSE]

ItemsBody(its) == JsonBody("message" :> ("items" :> its))

Response(status_code, text) ==
    [kind |-> "response", status_code |-> status_code, text |-> text]

TransportError == [kind |-> "exception", exc |-> Exc("ConnectionError", "connection refused")]

\* a status other than 200, with bodies of every sort
ErrorStatuses == {404, 500}

ErrorResponses ==
    {Response(st, tx) : st \in ErrorStatuses,
                        tx \in {NotJson, JsonBody(EmptyDict), ItemsBody(<<>>),
                                ItemsBody(<<OtherItem>>)}}

Responses ==
    {TransportError} \cup ErrorResponses
    \cup {Response(HTTP_OK, tx) : tx \in {NotJson, JsonBody(EmptyDict),
                                          JsonBody("message" :> EmptyDict)}}
    \cup {Response(HTTP_OK, ItemsBody(its)) : its \in ItemLists}

-----------------------------------------------------------------------------
(* Single calls of the functions: the arguments are drawn in the initial    *)
(* state and the one action applies the function.                          *)

Idle ==
    /\ target = <<>> /\ articles = <<>> /\ pc = "call" /\ i = 0
    /\ dir_exists = FALSE /\ files = EmptyDict /\ printed = <<>>
    /\ lookups = <<>> /\ log = <<>>

Pending == [kind |-> "pending"]

\* titles over the nine characters of the class and three others
TitleAlphabet == UNSAFE_CLASS \cup {"a", " ", "\n"}

\* the title of the example: Foo/Bar:Baz?
ExampleTitle == <<"F", "o", "o", "/", "B", "a", "r", ":", "B", "a", "z", "?">>

Titles == StringsUpTo(TitleAlphabet, MaxTitleLen) \cup {ExampleTitle}

InitSanitize ==
    /\ Idle
    /\ call \in {[fn |-> "sanitize_title", title |-> t, result |-> Pending] :
                    t \in Titles}

CallSanitize ==
    /\ call.fn = "sanitize_title" /\ call.result = Pending
    /\ call' = [call EXCEPT !.result = Return(sanitize_title(call.title))]
    /\ UNCHANGED driverVars

SpecSanitize == InitSanitize /\ [][CallSanitize]_vars

InitReference ==
    /\ Idle
    /\ call \in {[fn |-> "get_reference", title |-> <<"A", " ", "B">>, resp |-> r,
                  result |-> Pending] : r \in Responses}

CallReference ==
    /\ call.fn = "get_reference" /\ call.result = Pending
    /\ call' = [call EXCEPT !.result = get_reference(call.title, call.resp)]
    /\ UNCHANGED driverVars

SpecReference == InitReference /\ [][CallReference]_vars

-----------------------------------------------------------------------------
(* The script, lines 154-161, and process, lines 107-151 *)

\* line 156: the literal the blob is split on
MARKER == <<"[", " ", "]">>

\* lines 156-157: target.strip().split('[ ]') and then articles[1:]
split_articles(blob) ==
    LET parts == split(strip(blob, WHITESPACE), MARKER)
    IN SubSeq(parts, 2, Len(parts))

\* lines 156-160: the articles are built and their number is printed
Main ==
    /\ pc = "main"
    /\ articles' = split_articles(target)
    /\ printed' = Append(printed, Digits(Len(articles')))
    /\ pc' = "process"
    /\ UNCHANGED <<target, i, dir_exists, files, lookups, log, call>>

\* lines 117-134: the chain is built, references/ is made if absent, the loop starts
ProcessStart ==
    /\ pc = "process"
    /\ dir_exists' = TRUE
    /\ i' = 1
    /\ pc' = "loop"
    /\ UNCHANGED <<target, articles, files, printed, lookups, log, call>>

\* line 137: title.strip('\n')
strip_title(raw) == strip(raw, {"\n"})

REFERENCES_DIR == <<"r", "e", "f", "e", "r", "e", "n", "c", "e", "s">>

\* a plausible slip: the file named after the query string of get_reference
file_path_query(idx, title) ==
    REFERENCES_DIR \o <<"/">> \o Digits(idx) \o <<"_">>
        \o sanitize_title(query_title(title)) \o <<".", "e", "n", "w">>

\* line 144: os.path.join("references", '{}_{}.enw'.format(i, sanitize_title(title)))
file_path(idx, title) ==
    REFERENCES_DIR \o <<"/">> \o Digits(idx) \o <<"_">>
        \o sanitize_title(title) \o <<".", "e", "n", "w">>

\* lines 150-151: the two lines the handler prints
failure_lines(idx, exc) ==
    << <<"U+7B2C">> \o Digits(idx)
          \o <<"U+7BC7", "U+6587", "U+7AE0", "U+83B7", "U+53D6", "U+4FE1", "U+606F",
               "U+5931", "U+8D25">>,
       <<"U+5931", "U+8D25", "U+539F", "U+56E0", "U+4E3A", "U+FF1A", " ", exc.msg>> >>

\* what llm_chain.run may do (line 136): return a completion, or raise
LLMOutputs ==
    { <<"\n", "\n", "A", " ", "B">>, <<"A", "/", "B", "\n">>, <<"A", "B">>,
      <<"A", ":", " ", "B", "?">> }

LLMResults == {Return(raw) : raw \in LLMOutputs}
              \cup {Raise(Exc("APIError", "rate limit reached"))}

\* what open(path, 'w') and the write may do (lines 147-148): succeed, or raise
\* before anything is on disk
WriteResults == {Return(<<>>), Raise(Exc("OSError", "Permission denied"))}

\* a full item with every optional key, two authors, and an item with no title
SampleItem ==
    ("type" :> <<"j">>) @@ ("title" :> <<(<<"T">>)>>)
    @@ ("author" :> <<("given" :> <<"G">>) @@ ("family" :> <<"F">>), ("family" :> <<"F">>)>>)
    @@ ("container-title" :> <<(<<"C">>)>>) @@ ("volume" :> <<"7">>)
    @@ ("ISSN" :> <<(<<"1", "X">>)>>) @@ ("published-online" :> DateParts(2019))
    @@ ("created" :> DateParts(2018)) @@ ("publisher" :> <<"P">>)

\* the answers the lookups of a run are drawn from
DriverResponses ==
    { TransportError,
      Response(404, NotJson),
      Response(500, ItemsBody(<<SampleItem>>)),
      Response(HTTP_OK, NotJson),
      Response(HTTP_OK, ItemsBody(<<>>)),
      Response(HTTP_OK, ItemsBody(<<SampleItem, OtherItem>>)),
      Response(HTTP_OK, ItemsBody(<<Without(SampleItem, "title")>>)) }

\* lines 136-151: one turn of the loop once llm_chain.run has returned raw, with
\* resp the answer to the lookup and wr the outcome of the write
Turn(raw, resp, wr) ==
    LET title == strip_title(raw)
        reference == get_reference(title, resp)
        path == file_path(i, title)
        raised == IF reference.kind = "raise" THEN reference ELSE wr
    IN /\ lookups' = Append(lookups, query_title(title))
       /\ IF raised.kind = "raise"
          THEN /\ printed' = printed \o failure_lines(i, raised.exc)
               /\ files' = files
               /\ log' = Append(log, [outcome |-> IF reference.kind = "raise"
                                                  THEN "resolve_raised"
                                                  ELSE "write_raised",
                                      raw |-> raw, title |-> title, resp |-> resp,
                                      reference |-> reference, exc |-> raised.exc])
          ELSE /\ printed' = printed
               /\ files' = (path :> reference.value) @@ files
               /\ log' = Append(log, [outcome |-> "written",
                                      raw |-> raw, title |-> title, resp |-> resp,
                                      reference |-> reference, path |-> path])
       /\ i' = i + 1
       /\ pc' = "loop"
       /\ UNCHANGED <<target, articles, dir_exists, call>>

\* a plausible slip: the call of the model moved inside the try block
LLMRaisesCaught ==
    /\ pc = "loop" /\ i <= Len(articles)
    /\ \E r \in LLMResults :
          /\ r.kind = "raise"
          /\ printed' = printed \o failure_lines(i, r.exc)
          /\ log' = Append(log, [outcome |-> "llm_raised", exc |-> r.exc])
    /\ i' = i + 1
    /\ UNCHANGED <<target, articles, pc, dir_exists, files, lookups, call>>

\* line 136 raises: nothing catches it, the script ends with a traceback
LLMRaises ==
    /\ pc = "loop" /\ i <= Len(articles)
    /\ \E r \in LLMResults :
          /\ r.kind = "raise"
          /\ log' = Append(log, [outcome |-> "llm_raised", exc |-> r.exc])
    /\ pc' = "aborted"
    /\ UNCHANGED <<target, articles, i, dir_exists, files, printed, lookups, call>>

\* a plausible slip: the handler re-raises after it has printed
ResolveRaisesAborts ==
    /\ pc = "loop" /\ i <= Len(articles)
    /\ \E r \in LLMResults, resp \in DriverResponses :
          /\ r.kind = "return"
          /\ get_reference(strip_title(r.value), resp).kind = "raise"
          /\ printed' = printed
                \o failure_lines(i, get_reference(strip_title(r.value), resp).exc)
          /\ lookups' = Append(lookups, query_title(strip_title(r.value)))
          /\ log' = Append(log, [outcome |-> "resolve_raised", raw |-> r.value,
                                 title |-> strip_title(r.value), resp |-> resp,
                                 reference |-> get_reference(strip_title(r.value), resp),
                                 exc |-> get_reference(strip_title(r.value), resp).exc])
    /\ pc' = "aborted"
    /\ UNCHANGED <<target, articles, i, dir_exists, files, call>>

\* line 141 raises: the handler prints, the loop goes on
ResolveRaises ==
    /\ pc = "loop" /\ i <= Len(articles)
    /\ \E r \in LLMResults, resp \in DriverResponses :
          /\ r.kind = "return"
          /\ get_reference(strip_title(r.value), resp).kind = "raise"
          /\ Turn(r.value, resp, Return(<<>>))

\* lines 147-148 raise: the handler prints, the loop goes on
WriteRaises ==
    /\ pc = "loop" /\ i <= Len(articles)
    /\ \E r \in LLMResults, resp \in DriverResponses, wr \in WriteResults :
          /\ r.kind = "return"
          /\ get_reference(strip_title(r.value), resp).kind = "return"
          /\ wr.kind = "raise"
          /\ Turn(r.value, resp, wr)

\* the turn runs to the end of the with block: the file holds the reference
Written ==
    /\ pc = "loop" /\ i <= Len(articles)
    /\ \E r \in LLMResults, resp \in DriverResponses, wr \in WriteResults :
          /\ r.kind = "return"
          /\ get_reference(strip_title(r.value), resp).kind = "return"
          /\ wr.kind = "return"
          /\ Turn(r.value, resp, wr)

\* the articles are exhausted: process returns and the script ends
LoopExit ==
    /\ pc = "loop" /\ i > Len(articles)
    /\ pc' = "done"
    /\ UNCHANGED <<target, articles, i, dir_exists, files, printed, lookups, log, call>>

NoCall == [fn |-> "none"]

InitMain(blobs) ==
    /\ target \in blobs
    /\ articles = <<>> /\ pc = "main" /\ i = 0
    /\ dir_exists \in BOOLEAN /\ files = EmptyDict /\ printed = <<>>
    /\ lookups = <<>> /\ log = <<>> /\ call = NoCall

\* a blob with a preamble and k marked citations, as target.py holds it
RECURSIVE Citations(_)
Citations(k) == IF k = 0 THEN <<>> ELSE Citations(k - 1) \o MARKER \o <<"c", Digits(k)[1]>>

Targets == {<<"\n", "p">> \o Citations(k) \o <<"\n">> : k \in 0..MaxArticles}

Init == InitMain(Targets)

Next ==
    \/ Main
    \/ ProcessStart
    \/ LLMRaises
    \/ ResolveRaises
    \/ WriteRaises
    \/ Written
    \/ LoopExit

Spec == Init /\ [][Next]_vars

\* every blob over the characters of the marker, a letter and a line end
BlobAlphabet == {"[", " ", "]", "a", "\n"}

\* the blob of the example: a preamble and two citations
ExampleBlob == <<"p", "r", "e", "[", " ", "]", "A", " ", "t", "[", " ", "]", "B", " ", "t">>

Blobs == StringsUpTo(BlobAlphabet, MaxBlobLen) \cup {ExampleBlob}

InitSplit == InitMain(Blobs)

SpecSplit == InitSplit /\ [][Next]_vars

-----------------------------------------------------------------------------
(* Properties *)

\* the nine characters the specification lists
NineChars == {"\\", "/", "*", "?", ":", "\"", "<", ">", "|"}

OutsideNine(c) == c \notin NineChars

SanitizeReturned == call.fn = "sanitize_title" /\ call.result /= Pending

\* C8: sanitize_title returns the title's subsequence of the characters outside
\* the nine, in order and with nothing put in their place; Foo/Bar:Baz? gives
\* FooBarBaz; the result holds none of the nine and sanitizing it again changes
\* nothing.
C8_SanitizeRemovesTheNine ==
    SanitizeReturned =>
        LET r == call.result.value
        IN /\ r = SelectSeq(call.title, OutsideNine)
           /\ \A k \in DOMAIN r : r[k] \notin NineChars
           /\ sanitize_title(r) = r
           /\ (call.title = ExampleTitle
                  => r = <<"F", "o", "o", "B", "a", "r", "B", "a", "z">>)

\* the example title has been sanitized
C8_Witness == SanitizeReturned /\ call.title = ExampleTitle

\* the blob with its outer whitespace off: from its first to its last other character
Stripped(blob) ==
    LET keep == {p \in DOMAIN blob : blob[p] \notin WHITESPACE}
    IN IF keep = {} THEN <<>>
       ELSE SubSeq(blob, CHOOSE p \in keep : \A q \in keep : p <= q,
                         CHOOSE p \in keep : \A q \in keep : q <= p)

\* the positions at which the marker [ ] stands in s
MarkersIn(s) ==
    {p \in 1..(Len(s) - 2) : s[p] = "[" /\ s[p + 1] = " " /\ s[p + 2] = "]"}

\* the position of the j-th marker of s
MarkerNo(s, j) ==
    CHOOSE p \in MarkersIn(s) : Cardinality({q \in MarkersIn(s) : q < p}) = j - 1

\* the text between the j-th marker of s and the next one, or the end
TextAfterMarker(s, j) ==
    SubSeq(s, MarkerNo(s, j) + 3,
           IF j < Cardinality(MarkersIn(s)) THEN MarkerNo(s, j + 1) - 1 ELSE Len(s))

\* C9: a blob with k markers gives exactly k articles, the j-th being the text
\* between the j-th marker and the next (or the end) of the stripped blob; the
\* example gives its two citations; the count printed is k and it is the first
\* line printed, before any article is taken.
C9_SplitAtMarkers ==
    LET s == Stripped(target)
        k == Cardinality(MarkersIn(s))
    IN /\ pc = "main" => printed = <<>> /\ log = <<>> /\ lookups = <<>>
       /\ pc /= "main" =>
            /\ Len(articles) = k
            /\ \A j \in 1..k : articles[j] = TextAfterMarker(s, j)
            /\ Len(printed) >= 1 /\ printed[1] = <<DigitChar(k)>>
            /\ pc = "process" => Len(printed) = 1 /\ log = <<>> /\ lookups = <<>>
            /\ (target = ExampleBlob
                  => articles = << <<"A", " ", "t">>, <<"B", " ", "t">> >>)

\* the example blob has been split
C9_Witness == pc = "process" /\ target = ExampleBlob /\ Len(articles) = 2

\* the lines of a text: what stands before each line end, and what is left after
\* the last one
RECURSIVE LinesOf(_)
LinesOf(s) ==
    IF s = <<>> THEN <<>>
    ELSE LET ends == {p \in DOMAIN s : s[p] = "\n"}
         IN IF ends = {} THEN <<s>>
            ELSE LET p == CHOOSE x \in ends : \A y \in ends : x <= y
                 IN <<SubSeq(s, 1, p - 1)>> \o LinesOf(SubSeq(s, p + 1, Len(s)))

\* the lines of s that begin with the tag: % and the tag's letter
TagLines(s, tag) ==
    LET ls == LinesOf(s)
    IN {k \in DOMAIN ls : Len(ls[k]) >= 2 /\ ls[k][1] = "%" /\ ls[k][2] = tag}

\* the one line of s with the tag, when there is exactly one
TheTagLine(s, tag) == LinesOf(s)[CHOOSE k \in TagLines(s, tag) : TRUE]

\* the call was answered 200 with a list of at least one item
AnsweredWithItem ==
    /\ call.fn = "get_reference" /\ call.resp.kind = "response"
    /\ call.resp.status_code = 200 /\ call.resp.text.json
    /\ "message" \in DOMAIN call.resp.text.data
    /\ "items" \in DOMAIN call.resp.text.data.message
    /\ call.resp.text.data.message.items /= <<>>

FirstItem == call.resp.text.data.message.items[1]

HasList(item, key) == key \in DOMAIN item /\ item[key] /= <<>>

\* the item has a title, an author list and a container-title
HasTitleAuthorVenue(item) ==
    HasList(item, "title") /\ "author" \in DOMAIN item /\ HasList(item, "container-title")

HasDate(item) ==
    \/ "published-print" \in DOMAIN item
    \/ "published-online" \in DOMAIN item
    \/ "created" \in DOMAIN item

\* the year the specification selects: print, else online, else created
SelectedYear(item) ==
    IF "published-print" \in DOMAIN item THEN item["published-print"]["date-parts"][1][1]
    ELSE IF "published-online" \in DOMAIN item
    THEN item["published-online"]["date-parts"][1][1]
    ELSE item["created"]["date-parts"][1][1]

\* C4: for a first item with title, author and container-title (and a date to
\* take the year from) the output has exactly one %D line, and its year is that
\* of published-print if present, else of published-online if present, else of
\* created; print 2020 with online 2019 gives %D 2020.
C4_YearPrecedence ==
    (AnsweredWithItem /\ call.result /= Pending
        /\ HasTitleAuthorVenue(FirstItem) /\ HasDate(FirstItem)) =>
        /\ call.result.kind = "return"
        /\ Cardinality(TagLines(call.result.value, "D")) = 1
        /\ TheTagLine(call.result.value, "D")
              = <<"%", "D", " ">> \o Digits(SelectedYear(FirstItem))
        /\ (/\ "published-print" \in DOMAIN FirstItem
            /\ FirstItem["published-print"]["date-parts"][1][1] = 2020
            /\ "published-online" \in DOMAIN FirstItem
            /\ FirstItem["published-online"]["date-parts"][1][1] = 2019)
           => TheTagLine(call.result.value, "D") = <<"%", "D", " ", "2", "0", "2", "0">>

\* an item dated in print and online has been resolved
C4_Witness ==
    /\ AnsweredWithItem /\ call.result /= Pending /\ call.result.kind = "return"
    /\ "published-print" \in DOMAIN FirstItem /\ "published-online" \in DOMAIN FirstItem
    /\ FirstItem["published-online"]["date-parts"][1][1] = 2019
    /\ TheTagLine(call.result.value, "D") = <<"%", "D", " ", "2", "0", "2", "0">>

\* the authors of the list that have a given or a family name
NamedAuthors(item) ==
    {k \in DOMAIN item.author :
        "given" \in DOMAIN item.author[k] \/ "family" \in DOMAIN item.author[k]}

\* the number of lines the first item alone accounts for
LinesDue(item) ==
    2 + Cardinality(NamedAuthors(item)) + 1
      + Cardinality({k \in {"type", "volume", "issue", "page", "publisher"} :
                        k \in DOMAIN item})
      + (IF HasList(item, "ISSN") THEN 1 ELSE 0)

\* C5: for a 200 answer whose first item has title, author list and
\* container-title, the output has exactly one %T line, exactly one %J line and
\* as many %A lines as authors with a given or family name; the lines are those
\* of the first item and the items after it add none.
C5_TitleVenueAuthors ==
    (AnsweredWithItem /\ call.result /= Pending
        /\ HasTitleAuthorVenue(FirstItem) /\ HasDate(FirstItem)) =>
        /\ call.result.kind = "return"
        /\ Cardinality(TagLines(call.result.value, "T")) = 1
        /\ TheTagLine(call.result.value, "T") = <<"%", "T", " ">> \o FirstItem.title[1]
        /\ Cardinality(TagLines(call.result.value, "J")) = 1
        /\ TheTagLine(call.result.value, "J")
              = <<"%", "J", " ">> \o FirstItem["container-title"][1]
        /\ Cardinality(TagLines(call.result.value, "A"))
              = Cardinality(NamedAuthors(FirstItem))
        /\ Len(LinesOf(call.result.value)) = LinesDue(FirstItem)

\* a list of two items, the first with a named and a nameless author, was resolved
C5_Witness ==
    /\ AnsweredWithItem /\ call.result /= Pending /\ call.result.kind = "return"
    /\ Len(call.resp.text.data.message.items) = 2
    /\ FirstItem /= OtherItem
    /\ Len(FirstItem.author) = 2
    /\ Cardinality(NamedAuthors(FirstItem)) = 1

\* C6: an item without ISSN, or with an empty ISSN list, gives no %@ line; an item
\* with a non-empty ISSN list gives exactly one %@ line, whose value is the first
\* element of the list.
C6_IssnLine ==
    (AnsweredWithItem /\ call.result /= Pending /\ call.result.kind = "return") =>
        IF HasList(FirstItem, "ISSN")
        THEN /\ Cardinality(TagLines(call.result.value, "@")) = 1
             /\ TheTagLine(call.result.value, "@") = <<"%", "@", " ">> \o FirstItem.ISSN[1]
        ELSE TagLines(call.result.value, "@") = {}

\* an item with two ISSNs has been resolved
C6_Witness ==
    /\ AnsweredWithItem /\ call.result /= Pending /\ call.result.kind = "return"
    /\ "ISSN" \in DOMAIN FirstItem /\ Len(FirstItem.ISSN) = 2

\* a line as the specification writes it: the tag, one space, the value, a line end
Line(tag, value) == <<"%", tag, " ">> \o value \o <<"\n">>

LineIfPresent(item, key, tag) == IF key \in DOMAIN item THEN Line(tag, item[key]) ELSE <<>>

\* the author line of the specification: family, given / given / family / none
AuthorLine(author) ==
    IF "given" \in DOMAIN author /\ "family" \in DOMAIN author
    THEN Line("A", author.family \o <<",", " ">> \o author.given)
    ELSE IF "given" \in DOMAIN author THEN Line("A", author.given)
    ELSE IF "family" \in DOMAIN author THEN Line("A", author.family)
    ELSE <<>>

RECURSIVE AuthorLinesOf(_)
AuthorLinesOf(authors) ==
    IF authors = <<>> THEN <<>>
    ELSE AuthorLine(Head(authors)) \o AuthorLinesOf(Tail(authors))

\* the text the specification prescribes for an item
PrescribedText(item) ==
    LineIfPresent(item, "type", "0")
    \o Line("T", item.title[1])
    \o AuthorLinesOf(item.author)
    \o Line("J", item["container-title"][1])
    \o LineIfPresent(item, "volume", "V")
    \o LineIfPresent(item, "issue", "N")
    \o LineIfPresent(item, "page", "P")
    \o (IF HasList(item, "ISSN") THEN Line("@", item.ISSN[1]) ELSE <<>>)
    \o Line("D", Digits(SelectedYear(item)))
    \o LineIfPresent(item, "publisher", "I")

\* C7: the output for an item is, character for character, the lines %0, %T, %A
\* (one per author, in list order), %J, %V, %N, %P, %@, %D, %I in this order,
\* each the tag, one space, the value and a line end; an author with both name
\* parts gives exactly the line "%A <family>, <given>".
C7_BitExactText ==
    (AnsweredWithItem /\ call.result /= Pending /\ call.result.kind = "return") =>
        call.result.value = PrescribedText(FirstItem)

-----------------------------------------------------------------------------
(* Properties of a run of process *)

\* s with the characters of chars off both ends
StrippedOf(s, chars) ==
    LET keep == {p \in DOMAIN s : s[p] \notin chars}
    IN IF keep = {} THEN <<>>
       ELSE SubSeq(s, CHOOSE p \in keep : \A q \in keep : p <= q,
                      CHOOSE p \in keep : \A q \in keep : q <= p)

\* the articles the loop has taken whose title was extracted
Extracted == {j \in DOMAIN log : log[j].outcome /= "llm_raised"}

\* the articles whose failure the handler of line 149 caught
Caught == {j \in DOMAIN log : log[j].outcome \in {"resolve_raised", "write_raised"}}

WrittenOnes == {j \in DOMAIN log : log[j].outcome = "written"}

\* the title of article j: the completion with the line ends off its two ends
TitleOf(j) == StrippedOf(log[j].raw, {"\n"})

\* the name the specification gives the file of article j
PrescribedPath(j) ==
    <<"r", "e", "f", "e", "r", "e", "n", "c", "e", "s", "/">>
        \o Digits(j) \o <<"_">> \o SelectSeq(TitleOf(j), OutsideNine)
        \o <<".", "e", "n", "w">>

\* the files of references/ whose name begins with the index j and an underscore
FilesOf(j) ==
    LET prefix == <<"r", "e", "f", "e", "r", "e", "n", "c", "e", "s", "/">>
                     \o Digits(j) \o <<"_">>
    IN {p \in DOMAIN files : Len(p) >= Len(prefix) /\ SubSeq(p, 1, Len(prefix)) = prefix}

\* article j has been processed as its own answers prescribe: looked up under
\* its own title, and written under its own index if nothing raised
ProcessedOnItsOwn(j) ==
    /\ j \in Extracted
    /\ Len(lookups) >= j
    /\ lookups[j] = [k \in DOMAIN TitleOf(j) |->
                        IF TitleOf(j)[k] = " " THEN "+" ELSE TitleOf(j)[k]]
    /\ log[j].outcome = "written" <=> log[j].reference.kind = "return" /\ "exc" \notin DOMAIN log[j]
    /\ log[j].outcome = "written" =>
          /\ PrescribedPath(j) \in DOMAIN files
          /\ files[PrescribedPath(j)] = log[j].reference.value

\* C1: when get_reference or the write raises for article j, the exception is
\* caught: two lines are printed, the first with the 1-based index j and the
\* second with the exception's message, no file is made for j, the run does not
\* end there, and every later article is processed as if j had not failed.
C1_FailureIsCaught ==
    \A j \in Caught :
        LET at == 2 + 2 * Cardinality({m \in Caught : m < j})
        IN /\ Len(printed) >= at + 1
           /\ printed[at][1] = "U+7B2C"
           /\ SubSeq(printed[at], 2, 1 + Len(Digits(j))) = Digits(j)
           /\ printed[at][2 + Len(Digits(j))] = "U+7BC7"
           /\ printed[at + 1][Len(printed[at + 1])] = log[j].exc.msg
           /\ FilesOf(j) = {}
           /\ pc = "aborted" => log[Len(log)].outcome = "llm_raised" /\ Len(log) > j
           /\ pc = "loop" => i = Len(log) + 1
           /\ pc = "done" => Len(log) = Len(articles)
           /\ \A m \in (j + 1)..Len(log) :
                 log[m].outcome /= "llm_raised" => ProcessedOnItsOwn(m)

\* the run is over; the first article failed in the lookup and the second was written
C1_Witness ==
    /\ pc = "done" /\ Len(log) = 2
    /\ log[1].outcome = "resolve_raised" /\ log[2].outcome = "written"

\* C2: when llm_chain.run raises for article j the handler does not catch it:
\* the run ends at j, nothing is printed for j, no lookup is made and no file
\* is written for j or any later article, and the files of the articles before
\* j are as they were written.
C2_LLMFailureAborts ==
    \A j \in DOMAIN log :
        log[j].outcome = "llm_raised" =>
            /\ pc = "aborted" /\ i = j /\ Len(log) = j
            /\ Len(lookups) = j - 1
            /\ Len(printed) = 1 + 2 * Cardinality(Caught)
            /\ DOMAIN files = {PrescribedPath(m) : m \in WrittenOnes}
            /\ \A m \in WrittenOnes : m < j /\ files[PrescribedPath(m)] = log[m].reference.value
            /\ \A m \in j..Len(articles) : FilesOf(m) = {}

\* the model call failed on the second article, after the first was written
C2_Witness ==
    /\ pc = "aborted" /\ Len(log) = 2 /\ log[2].outcome = "llm_raised"
    /\ log[1].outcome = "written" /\ Len(articles) = 2

\* the two sentinels as the specification names them
ErrorSentinel == <<"U+53D1", "U+751F", "U+9519", "U+8BEF", "U+3002">>

NotFoundSentinel == <<"U+672A", "U+627E", "U+5230", "U+9879", "U+76EE", "U+3002">>

NoTaggedLine(s) == \A k \in DOMAIN LinesOf(s) : LinesOf(s)[k][1] /= "%"

\* the lookup of article j gave a status other than 200
ErrorStatus(j) == log[j].resp.kind = "response" /\ log[j].resp.status_code /= 200

\* the lookup of article j gave 200 and an empty list of items
NoItems(j) ==
    /\ log[j].resp.kind = "response" /\ log[j].resp.status_code = 200
    /\ log[j].resp.text.json
    /\ "message" \in DOMAIN log[j].resp.text.data
    /\ "items" \in DOMAIN log[j].resp.text.data.message
    /\ log[j].resp.text.data.message.items = <<>>

\* C3: for a status other than 200 get_reference returns the error sentinel,
\* whatever the body; for 200 with no item it returns the not-found sentinel;
\* it does not raise, the result has no line that begins with %, and the file
\* the driver writes for the article holds the sentinel.
C3_SentinelsReturnedAndWritten ==
    \A j \in Extracted :
        (ErrorStatus(j) \/ NoItems(j)) =>
            /\ log[j].reference.kind = "return"
            /\ ErrorStatus(j) => log[j].reference.value = ErrorSentinel
            /\ NoItems(j) => log[j].reference.value = NotFoundSentinel
            /\ NoTaggedLine(log[j].reference.value)
            /\ log[j].outcome /= "resolve_raised"
            /\ log[j].outcome = "written" =>
                  /\ PrescribedPath(j) \in DOMAIN files
                  /\ files[PrescribedPath(j)] = IF ErrorStatus(j) THEN ErrorSentinel
                                                ELSE NotFoundSentinel

\* a 404 whose body is no JSON and a 200 without items have both been written
C3_Witness ==
    /\ Len(log) = 2
    /\ log[1].outcome = "written" /\ ErrorStatus(1) /\ ~log[1].resp.text.json
    /\ log[2].outcome = "written" /\ NoItems(2)

====
